---- MODULE Spec2Model ----
(***************************************************************************)
(* trazr-gen: the concurrent log-generation engine.                        *)
(*                                                                         *)
(* run (pkg/logs/logs.go) validates the configuration, spawns WorkerCount  *)
(* goroutines running worker.simulateLogs (pkg/logs/worker.go), optionally *)
(* sleeps TotalDuration and clears the shared running flag, waits on the   *)
(* WaitGroup and runs its deferred exporter shutdowns.                     *)
(*                                                                         *)
(* Time is a discrete clock `now` that starts when run reaches its spawn   *)
(* loop.  A rate of R records per second is modelled by its period: one    *)
(* token every `period` ticks (period 0 is rate.Inf), so R x D is          *)
(* duration / period.                                                      *)
(*                                                                         *)
(* zap's Logger.Fatal writes the entry and calls os.Exit(1) (the loggers   *)
(* of internal/common/log.go and of the tests install no fatal hook): the  *)
(* process ends there, no deferred function runs and no goroutine takes    *)
(* another step.  `exited` records it.                                     *)
(***************************************************************************)
EXTENDS Integers, Sequences, FiniteSets, TLC

\* ------------------------------------------------------------------ bounds
MaxWorkers == 2
MaxCount == 2
MaxDuration == 1
MaxPeriod == 2
MaxRateDuration == 2
MaxExports == 3
MaxSeverityInput == 26
MaxTraceWorkers == 2
MaxTraces == 2
MaxTraceDuration == 1
MaxChildSpans == 2
MaxSpanDuration == 2
MaxTraceIterations == 2
MaxExpanders == 2
MaxReshuffles == 3
MaxDraws == 2

\* ------------------------------------------------------------- identifiers
\* A trace or span identifier is a string: a sequence of characters.
HexChars ==
    {"0", "1", "2", "3", "4", "5", "6", "7", "8", "9",
     "a", "b", "c", "d", "e", "f", "A", "B", "C", "D", "E", "F"}

Repeat(ch, n) == [i \in 1..n |-> ch]

NoID == <<>>
GoodTraceID == Repeat("a", 32)
GoodSpanID == Repeat("f", 16)
ShortTraceID == <<"1", "2", "3">>
LongTraceID == Repeat("0", 33)
NonHexTraceID == [i \in 1..32 |-> IF i = 7 THEN "g" ELSE "a"]
ShortSpanID == <<"1", "2", "3">>
NonHexSpanID == [i \in 1..16 |-> IF i = 16 THEN "z" ELSE "9"]
SpanSizedTraceID == Repeat("a", 16)
TraceSizedSpanID == Repeat("f", 32)

IsHex(s) == \A i \in 1..Len(s) : s[i] \in HexChars

\* common.ValidateTraceID: a 32-character hex string is accepted, any other
\* length or non-hex content is rejected.
ValidateTraceID(s) == Len(s) = 32 /\ IsHex(s)

\* common.ValidateSpanID: the 16-character analogue.
ValidateSpanID(s) == Len(s) = 16 /\ IsHex(s)

\* Config.Validate: the error it returns, "ok" for nil.
ValidateDropsCountCheck(c, n) ==
    IF c.traceID # NoID /\ ~ValidateTraceID(c.traceID) THEN "trace"
    ELSE IF c.spanID # NoID /\ ~ValidateSpanID(c.spanID) THEN "span"
    ELSE "ok"

Validate(c, n) ==
    IF c.duration <= 0 /\ n <= 0 THEN "count"
    ELSE IF c.traceID # NoID /\ ~ValidateTraceID(c.traceID) THEN "trace"
    ELSE IF c.spanID # NoID /\ ~ValidateSpanID(c.spanID) THEN "span"
    ELSE "ok"

\* -------------------------------------------------------------- attributes
\* A string is a sequence of tokens; "{{" and "}}" are tokens of their own.
\* A raw attribute value is a string, a bool, an int or a float64 (a type the
\* attribute functions do not handle), written as its type and its text.
AttrKeys == {"k1", "k2", "service.name"}

SensitiveMarkerKey == "trazr.sensitive.data"

MockMarkerKey == "trazr.mock.data"

ServiceNameKey == "service.name"

PlainString == <<"v1">>

TplFake == <<"{{", "FirstName", "}}">>

TplInvalid == <<"{{", "InvalidFunc", "}}">>

StringValue(s) == [type |-> "string", val |-> s]

RawValues ==
    {StringValue(PlainString), StringValue(TplFake), StringValue(TplInvalid),
     [type |-> "int", val |-> <<"7">>], [type |-> "float64", val |-> <<"1.5">>]}

\* The raw maps of a configuration: every map that leaves a key out.
RawMaps == UNION {[S -> RawValues] : S \in (SUBSET AttrKeys) \ {AttrKeys}}

\* The sensitive-data lists of a configuration: present and absent keys, in
\* both orders, and a key listed twice.
SensitiveLists ==
    {<<>>, <<"k1">>, <<"absent">>, <<"k1", "k2">>, <<"k2", "k1">>,
     <<"absent", "k1">>, <<"k1", "k1">>}

\* strings.Contains(s, t) for a token t.
Contains(s, t) == \E i \in 1..Len(s) : s[i] = t

\* strings.Join(keys, ",")
RECURSIVE Join(_)
Join(keys) ==
    IF Len(keys) = 0 THEN <<>>
    ELSE IF Len(keys) = 1 THEN <<keys[1]>>
    ELSE <<keys[1], ",">> \o Join(Tail(keys))

\* The map attrs with attrs[k] = v.
MapSet(attrs, k, v) ==
    [x \in DOMAIN attrs \cup {k} |-> IF x = k THEN v ELSE attrs[x]]

\* InjectSensitiveDataMarker(attrs, sensitiveKeys): the map it leaves.
InjectSupportedOnly(attrs, sensitiveKeys) ==
    LET present == SelectSeq(sensitiveKeys,
                             LAMBDA k : k \in DOMAIN attrs /\ attrs[k].type # "float64") IN
    IF Len(present) > 0
    THEN MapSet(attrs, SensitiveMarkerKey, StringValue(Join(present)))
    ELSE attrs

InjectAllListed(attrs, sensitiveKeys) ==
    IF Len(sensitiveKeys) > 0
    THEN MapSet(attrs, SensitiveMarkerKey, StringValue(Join(sensitiveKeys)))
    ELSE attrs

InjectSensitiveDataMarker(attrs, sensitiveKeys) ==
    LET present == SelectSeq(sensitiveKeys, LAMBDA k : k \in DOMAIN attrs) IN
    IF Len(present) > 0
    THEN MapSet(attrs, SensitiveMarkerKey, StringValue(Join(present)))
    ELSE attrs

\* gofakeit: the values a Faker hands out, one after the other.  A Faker's
\* state is its place in that cycle.
FakeValues == <<"Ann", "42", "Bob">>

FakerStates == 1..Len(FakeValues)

\* gofakeit.New(seed)
NewFaker(seed) == (seed % Len(FakeValues)) + 1

FakerNext(f) == (f % Len(FakeValues)) + 1

\* ProcessMockTemplate(tmplStr, nil) with fakerInstance in state f: an error
\* for a function gofakeit does not know, the next value of the Faker for a
\* template, the text itself when it holds no template.
ProcessMockTemplate(tmpl, f) ==
    IF Contains(tmpl, "InvalidFunc")
    THEN [err |-> TRUE, val |-> <<>>, faker |-> f]
    ELSE IF tmpl = TplFake
    THEN [err |-> FALSE, val |-> <<FakeValues[f]>>, faker |-> FakerNext(f)]
    ELSE [err |-> FALSE, val |-> tmpl, faker |-> f]

\* attribute.KeyValue: the key, the type of the value and its text.
KV(k, type, val) == [key |-> k, type |-> type, val |-> val]

\* strconv.Atoi, strconv.ParseBool and strconv.ParseFloat succeed on these.
IntTexts == {<<"7">>, <<"42">>}

BoolTexts == {<<"true">>, <<"false">>}

FloatTexts == {<<"1.5">>} \cup IntTexts

\* The type ProcessMockMarkers gives an expanded value: int, then bool, then
\* float64, else string.
DetectType(parsed) ==
    IF parsed \in IntTexts THEN "INT64"
    ELSE IF parsed \in BoolTexts THEN "BOOL"
    ELSE IF parsed \in FloatTexts THEN "FLOAT64"
    ELSE "STRING"

\* The orders in which `for k, v := range attrs` can visit the keys of a map.
Orders(S) ==
    {o \in [1..Cardinality(S) -> S] : \A i, j \in 1..Cardinality(S) : o[i] = o[j] => i = j}

\* The loop of ProcessMockMarkers from the i-th key of the order on.
RECURSIVE MockLoop(_, _, _, _, _, _)
MockLoop(attrs, ord, i, result, mockKeys, f) ==
    IF i > Len(ord)
    THEN [err |-> FALSE,
          kvs |-> IF Len(mockKeys) > 0
                  THEN Append(result, KV(MockMarkerKey, "STRING", Join(mockKeys)))
                  ELSE result,
          faker |-> f]
    ELSE LET k == ord[i]
             v == attrs[k]
         IN  IF v.type = "string"
             THEN IF Contains(v.val, "{{") /\ Contains(v.val, "}}")
                  THEN LET r == ProcessMockTemplate(v.val, f) IN
                       IF r.err
                       THEN [err |-> TRUE, kvs |-> <<>>, faker |-> r.faker]
                       ELSE MockLoop(attrs, ord, i + 1,
                                     Append(result, KV(k, DetectType(r.val), r.val)),
                                     Append(mockKeys, k), r.faker)
                  ELSE MockLoop(attrs, ord, i + 1,
                                Append(result, KV(k, "STRING", v.val)), mockKeys, f)
             ELSE IF v.type = "bool"
             THEN MockLoop(attrs, ord, i + 1,
                           Append(result, KV(k, "BOOL", v.val)), mockKeys, f)
             ELSE IF v.type = "int"
             THEN MockLoop(attrs, ord, i + 1,
                           Append(result, KV(k, "INT64", v.val)), mockKeys, f)
             ELSE MockLoop(attrs, ord, i + 1, result, mockKeys, f)

\* ProcessMockMarkers(attrs), the map visited in the order ord.
ProcessMockMarkersAlwaysMarks(attrs, ord, f) ==
    LET r == MockLoop(attrs, ord, 1, <<>>, <<>>, f) IN
    IF r.err \/ \E i \in 1..Len(r.kvs) : r.kvs[i].key = MockMarkerKey
    THEN r
    ELSE [r EXCEPT !.kvs = Append(r.kvs, KV(MockMarkerKey, "STRING", <<>>))]

ProcessMockMarkers(attrs, ord, f) == MockLoop(attrs, ord, 1, <<>>, <<>>, f)

\* attributesFromMap(attrs), the map visited in the order ord.
RECURSIVE FromMapLoop(_, _, _, _)
FromMapLoop(attrs, ord, i, result) ==
    IF i > Len(ord) THEN result
    ELSE LET k == ord[i]
             v == attrs[k]
         IN  IF v.type = "string"
             THEN FromMapLoop(attrs, ord, i + 1, Append(result, KV(k, "STRING", v.val)))
             ELSE IF v.type = "bool"
             THEN FromMapLoop(attrs, ord, i + 1, Append(result, KV(k, "BOOL", v.val)))
             ELSE IF v.type = "int"
             THEN FromMapLoop(attrs, ord, i + 1, Append(result, KV(k, "INT64", v.val)))
             ELSE FromMapLoop(attrs, ord, i + 1, result)

attributesFromMapFirstOnly(attrs, ord) ==
    FromMapLoop(attrs, IF ord = <<>> THEN ord ELSE <<ord[1]>>, 1, <<>>)

attributesFromMap(attrs, ord) == FromMapLoop(attrs, ord, 1, <<>>)

\* Config.GetTelemetryAttrWithMockMarker
GetTelemetryAttrWithMockMarker(c, attrs, ord, f) ==
    IF c.mock
    THEN ProcessMockMarkers(attrs, ord, f)
    ELSE [err |-> FALSE, kvs |-> attributesFromMap(attrs, ord), faker |-> f]

HasKey(kvs, k) == \E i \in 1..Len(kvs) : kvs[i].key = k

\* Config.GetResourceAttrWithMockMarker
GetResourceAttrWithMockMarker(c, attrs, ord, f) ==
    LET r == IF c.mock
             THEN ProcessMockMarkers(attrs, ord, f)
             ELSE [err |-> FALSE, kvs |-> attributesFromMap(attrs, ord), faker |-> f]
    IN  IF r.err THEN r
        ELSE IF ~HasKey(r.kvs, ServiceNameKey) /\ c.svc # <<>>
        THEN [r EXCEPT !.kvs = Append(r.kvs, KV(ServiceNameKey, "STRING", c.svc))]
        ELSE r

\* simulateLogs: ",Body" appended to the first trazr.mock.data attribute, or a
\* "log-body" marker appended when there is none.
MarkBodyExpanded(kvs) ==
    IF HasKey(kvs, MockMarkerKey)
    THEN LET i == CHOOSE n \in 1..Len(kvs) :
                      /\ kvs[n].key = MockMarkerKey
                      /\ \A m \in 1..(n - 1) : kvs[m].key # MockMarkerKey
         IN  [kvs EXCEPT ![i] = KV(MockMarkerKey, "STRING", kvs[i].val \o <<",", "Body">>)]
    ELSE Append(kvs, KV(MockMarkerKey, "STRING", <<"log-body">>))

\* attrToLogKeyValue: a log.KeyValue of the same key, the kind of the type
\* and the same value for each attribute.
LogKind(type) ==
    IF type = "BOOL" THEN "Bool"
    ELSE IF type = "INT64" THEN "Int64"
    ELSE IF type = "FLOAT64" THEN "Float64"
    ELSE "String"

attrToLogKeyValue(kvs) ==
    [i \in 1..Len(kvs) |-> [key |-> kvs[i].key, type |-> LogKind(kvs[i].type), val |-> kvs[i].val]]

\* simulateLogs, from the telemetry attributes to the attributes of the
\* record: err when the worker leaves its loop instead (Fatal or break).
RecordAttributes(c, attrs, ord, f) ==
    LET tel == GetTelemetryAttrWithMockMarker(c, attrs, ord, f) IN
    IF tel.err THEN tel
    ELSE LET b == IF c.mock
                  THEN ProcessMockTemplate(c.body, tel.faker)
                  ELSE [err |-> FALSE, val |-> c.body, faker |-> tel.faker]
         IN  IF b.err
             THEN [err |-> TRUE, kvs |-> <<>>, faker |-> b.faker]
             ELSE LET marked == IF b.val # c.body
                                THEN MarkBodyExpanded(tel.kvs)
                                ELSE tel.kvs
                  IN  [err |-> FALSE,
                       kvs |-> <<KV(ServiceNameKey, "String", c.svc)>>
                                   \o attrToLogKeyValue(marked),
                       faker |-> b.faker]

\* ---------------------------------------------------------------- severity
\* log.SeverityTrace1 and log.SeverityFatal4: the valid range is [1,24].
SeverityTrace1 == 1

SeverityFatal4 == 24

\* math.MaxInt32
MaxInt32 == 2147483647

\* A severity text is a string: the name of a band and, for the sub-levels 2
\* to 4, the digit of the sub-level.
SeverityBands == <<"Trace", "Debug", "Info", "Warn", "Error", "Fatal">>

\* severityNumberToText / severityTextFromNumber: "" for a number that is not
\* in the table.
severityTextFromNumber(n) ==
    IF n = 1 THEN <<"Trace">>
    ELSE IF n = 2 THEN <<"Trace", "2">>
    ELSE IF n = 3 THEN <<"Trace", "3">>
    ELSE IF n = 4 THEN <<"Trace", "4">>
    ELSE IF n = 5 THEN <<"Debug">>
    ELSE IF n = 6 THEN <<"Debug", "2">>
    ELSE IF n = 7 THEN <<"Debug", "3">>
    ELSE IF n = 8 THEN <<"Debug", "4">>
    ELSE IF n = 9 THEN <<"Info">>
    ELSE IF n = 10 THEN <<"Info", "2">>
    ELSE IF n = 11 THEN <<"Info", "3">>
    ELSE IF n = 12 THEN <<"Info", "4">>
    ELSE IF n = 13 THEN <<"Warn">>
    ELSE IF n = 14 THEN <<"Warn", "2">>
    ELSE IF n = 15 THEN <<"Warn", "3">>
    ELSE IF n = 16 THEN <<"Warn", "4">>
    ELSE IF n = 17 THEN <<"Error">>
    ELSE IF n = 18 THEN <<"Error", "2">>
    ELSE IF n = 19 THEN <<"Error", "3">>
    ELSE IF n = 20 THEN <<"Error", "4">>
    ELSE IF n = 21 THEN <<"Fatal">>
    ELSE IF n = 22 THEN <<"Fatal", "2">>
    ELSE IF n = 23 THEN <<"Fatal", "3">>
    ELSE IF n = 24 THEN <<"Fatal", "4">>
    ELSE <<>>

\* The range parseSeverity's switch asks of a well-known text.
TextRange(text) ==
    IF text = <<"Trace">> THEN {1, 2, 3, 4}
    ELSE IF text = <<"Debug">> THEN {5, 6, 7, 8}
    ELSE IF text = <<"Info">> THEN {9, 10, 11, 12}
    ELSE IF text = <<"Warn">> THEN {13, 14, 15, 16}
    ELSE IF text = <<"Error">> THEN {17, 18, 19, 20}
    ELSE IF text = <<"Fatal">> THEN {21, 22, 23, 24}
    ELSE Int

\* parseSeverity(severityText, severityNumber): "range" and "mismatch" are its
\* two errors; the text and the number are those it returns.
parseSeverityNoRangeCheck(severityText, severityNumber) ==
    LET text == IF severityText = <<>>
                THEN severityTextFromNumber(severityNumber)
                ELSE severityText
    IN  IF severityNumber \notin TextRange(text)
        THEN [err |-> "mismatch", text |-> <<>>, num |-> 0]
        ELSE [err |-> "none", text |-> text, num |-> severityNumber]

parseSeverity(severityText, severityNumber) ==
    IF severityNumber < SeverityTrace1 \/ severityNumber > SeverityFatal4
    THEN [err |-> "range", text |-> <<>>, num |-> 0]
    ELSE LET text == IF severityText = <<>>
                     THEN severityTextFromNumber(severityNumber)
                     ELSE severityText
         IN  IF severityNumber \notin TextRange(text)
             THEN [err |-> "mismatch", text |-> <<>>, num |-> 0]
             ELSE [err |-> "none", text |-> text, num |-> severityNumber]

\* The decimal digits, and the text of a number as the configuration holds it.
DigitChars == <<"0", "1", "2", "3", "4", "5", "6", "7", "8", "9">>

RECURSIVE NumberText(_)
NumberText(n) ==
    IF n < 0 THEN <<"-">> \o NumberText(-n)
    ELSE IF n < 10 THEN <<DigitChars[n + 1]>>
    ELSE NumberText(n \div 10) \o <<DigitChars[(n % 10) + 1]>>

DigitValue(ch) == CHOOSE d \in 0..9 : DigitChars[d + 1] = ch

RECURSIVE DigitsValue(_, _)
DigitsValue(s, acc) ==
    IF s = <<>> THEN acc ELSE DigitsValue(Tail(s), 10 * acc + DigitValue(Head(s)))

\* strconv.Atoi(s): 0 and an error when s is not a decimal number.
Atoi(s) ==
    LET signed == s # <<>> /\ Head(s) \in {"-", "+"}
        digits == IF signed THEN Tail(s) ELSE s
    IN  IF digits = <<>> \/ \E i \in 1..Len(digits) : \A d \in 1..10 : DigitChars[d] # digits[i]
        THEN [err |-> TRUE, val |-> 0]
        ELSE [err |-> FALSE,
              val |-> IF signed /\ Head(s) = "-"
                      THEN 0 - DigitsValue(digits, 0)
                      ELSE DigitsValue(digits, 0)]

\* simulateLogs: the severity number of the iteration, from the configured
\* text of the number to the int32 handed to parseSeverity.  `drawn` is the
\* text a template expands to, <<>> when its expansion fails.
SeverityNumberOf(numberStr, mock, drawn) ==
    LET str == IF mock /\ Len(numberStr) > 0
                  /\ Contains(numberStr, "{{") /\ Contains(numberStr, "}}")
                  /\ drawn # <<>>
               THEN drawn
               ELSE numberStr
        parsed == Atoi(str)
        n == IF parsed.err /\ parsed.val < 1 /\ parsed.val > 24 THEN 9 ELSE parsed.val
    IN  IF n > MaxInt32 THEN MaxInt32
        ELSE IF n < (0 - MaxInt32) - 1 THEN (0 - MaxInt32) - 1
        ELSE n

\* The severity texts and the texts of severity numbers of a configuration.
SeverityTexts ==
    {<<>>, <<"Info", "2">>, <<"bogus">>} \cup {<<SeverityBands[b]>> : b \in 1..Len(SeverityBands)}

TplNumber == <<"{{", "Number 1 24", "}}">>

SeverityNumberTexts ==
    {NumberText(n) : n \in -1..MaxSeverityInput}
        \cup {<<>>, <<"n", "a", "n">>, TplNumber, TplInvalid}

\* What a templated severity number can expand to: nothing for a template
\* whose expansion fails.
Draws(numberStr) ==
    IF numberStr = TplNumber THEN {NumberText(n) : n \in 1..24} ELSE {<<>>}

\* ------------------------------------------------------------------- state
VARIABLES
    cfg,            \* the Config run was given (read-only but for NumLogs)
    numLogs,        \* c.NumLogs, which run overwrites
    runPc,          \* where run is
    runErr,         \* the error run returned ("ok" for nil, "none" before)
    spawned,        \* workers spawned so far (the loop index i of run)
    deferred,       \* deferred exporter shutdowns not yet run
    shutdownCalls,  \* calls of exporter.Shutdown
    running,        \* the shared atomic.Bool
    totalLogs,      \* the shared counter totalLogs
    finalCount,     \* the count run logs at its end, -1 before
    wgCount,        \* the WaitGroup counter
    progressClosed, \* progressCh has been closed
    aggPc,          \* the progress aggregator goroutine of run
    exited,         \* os.Exit has been called
    now,            \* the clock
    sleepUntil,     \* when run's time.Sleep may return, -1 when not sleeping
    stoppedAt,      \* when run stored false in running, -1 before
    wpc,            \* where each worker is
    wnum,           \* each worker's numLogs field
    iter,           \* each worker's local i
    exportCalls,    \* each worker's calls of exporter.Export
    wfail,          \* the failure a worker met
    leftBy,         \* why a worker left its loop
    wakeAt,         \* when a worker's limiter.Wait may return
    nextAvail,      \* when a worker's limiter has a whole token again
    recTime,        \* the Timestamp of the record a worker holds, -1 without
    acfg,           \* the common.Config the attribute functions read
    attrMap,        \* c.ResourceAttributes or c.TelemetryAttributes, a map
    faker,          \* fakerInstance: the state of the shared random source
    apc,            \* where the attribute pipeline is
    afn,            \* the attribute function called, "none" before
    out1,           \* what its first call returned
    out2,           \* what its second call returned
    sevCfg,         \* the severity text and number of the configuration
    sevPc,          \* where the severity handling of one iteration is
    sevInt,         \* safeSeverityNumberInt
    sevOut,         \* what parseSeverity returned
    sevRecord,      \* the severity of the exported record
    trCfg,          \* the traces.Config given to traces.Start
    trPc,           \* where Start and run of the traces generator are
    trErr,          \* what Start returns: "none" before, "ok" or an error
    trDefers,       \* the deferred functions of Start, last registered last
    trRegistered,   \* the tracer provider has the batch span processor
    trQueue,        \* spans in the queue of the batch span processor
    trExported,     \* spans handed to the exporter
    trEnded,        \* spans ended by the workers
    trShutdown,     \* calls of the exporter's Shutdown
    trRunning,      \* the running flag of the traces run
    trSpawned,      \* workers started by the traces run
    trWg,           \* the WaitGroup counter of the traces run
    trClosed,       \* progressCh is closed
    trAgg,          \* where the aggregator goroutine is
    trAggCount,     \* count of the aggregator
    totalTraces,    \* the shared counter of traces
    trFinal,        \* the final count logged, -1 before
    trExited,       \* the process has ended: os.Exit(1) or a panic
    trPanic,        \* a goroutine sent on the closed channel
    trNow,          \* the time of the traces run
    trSleepUntil,   \* when time.Sleep(TotalDuration) of the traces run ends
    twpc,           \* where each trace worker is
    twNum,          \* w.numTraces of each worker
    twChildSpans,   \* w.numChildSpans of each worker
    twI,            \* i of each worker
    twJ,            \* j of each worker
    spanStart,      \* spanStart of each worker
    spanEnd,        \* spanEnd of each worker
    endTimestamp,   \* endTimestamp of each worker, -1 while it is nil
    twParent,       \* the parent span of the current trace: start and end
    twChildren,     \* the child spans ended in the current trace
    fakerInstance,  \* the shared *gofakeit.Faker: which instance it points to
    fakerMutex,     \* the RWMutex: whether write-locked, and its readers
    mpc,            \* where InitMockData / ReshuffleMockData is
    reshuffles,     \* instances made so far
    epc,            \* where each call of ProcessMockTemplate is
    currentFaker,   \* currentFaker of each call
    drawnFrom       \* the instance each draw of a call's expansion used

attrVars == <<acfg, attrMap, faker, apc, afn, out1, out2>>

\* The state of the functions followed outside a run.
sevVars == <<sevCfg, sevPc, sevInt, sevOut, sevRecord>>

\* The state of the traces generator.
traceVars == <<trCfg, trPc, trErr, trDefers, trRegistered, trQueue, trExported,
               trEnded, trShutdown, trRunning, trSpawned, trWg, trClosed, trAgg,
               trAggCount, totalTraces, trFinal, trExited, trPanic, trNow,
               trSleepUntil, twpc, twNum, twChildSpans, twI, twJ, spanStart,
               spanEnd, endTimestamp, twParent, twChildren>>

\* The state of the mock template engine under concurrent callers.
mockVars == <<fakerInstance, fakerMutex, mpc, reshuffles, epc, currentFaker,
              drawnFrom>>

sideVars == <<traceVars, mockVars>>

pureVars == <<attrVars, sevVars, sideVars>>

genVars == <<cfg, numLogs, runPc, runErr, spawned, deferred, shutdownCalls, running,
             totalLogs, finalCount, wgCount, progressClosed, aggPc, exited, now,
             sleepUntil, stoppedAt, wpc, wnum, iter, exportCalls, wfail, leftBy,
             wakeAt, nextAvail, recTime>>

vars == <<genVars, pureVars>>

runVars == <<numLogs, runPc, runErr, spawned, deferred, shutdownCalls, finalCount,
             progressClosed, sleepUntil, stoppedAt>>

workerVars == <<wpc, wnum, iter, exportCalls, wfail, leftBy, wakeAt, nextAvail,
                recTime>>

Workers == 1..MaxWorkers

\* Whether the configuration holds templates whose expansion can fail
\* (MockData on and {{...}} values in the resource attributes, the telemetry
\* attributes and the log body): "none" or "fallible".
MockKinds == {"none", "fallible"}

\* run is entered with one of `configs`.
InitGen(configs) ==
    /\ cfg \in configs
    /\ numLogs = cfg.count
    /\ runPc = "validate"
    /\ runErr = "none"
    /\ spawned = 0
    /\ deferred = 0
    /\ shutdownCalls = 0
    /\ running = FALSE
    /\ totalLogs = 0
    /\ finalCount = -1
    /\ wgCount = 0
    /\ progressClosed = FALSE
    /\ aggPc = "none"
    /\ exited = FALSE
    /\ now = 0
    /\ sleepUntil = -1
    /\ stoppedAt = -1
    /\ wpc = [w \in Workers |-> "idle"]
    /\ wnum = [w \in Workers |-> 0]
    /\ iter = [w \in Workers |-> 0]
    /\ exportCalls = [w \in Workers |-> 0]
    /\ wfail = [w \in Workers |-> "none"]
    /\ leftBy = [w \in Workers |-> "none"]
    /\ wakeAt = [w \in Workers |-> 0]
    /\ nextAvail = [w \in Workers |-> 0]
    /\ recTime = [w \in Workers |-> -1]

\* No attribute function is followed.
NoAttrConfig ==
    [attrs |-> <<>>, sens |-> <<>>, mock |-> FALSE, svc |-> <<>>, body |-> <<>>,
     seed |-> 0]

NoOutput == [err |-> FALSE, kvs |-> <<>>]

AttrIdle ==
    /\ acfg = NoAttrConfig
    /\ attrMap = <<>>
    /\ faker = 0
    /\ apc = "idle"
    /\ afn = "none"
    /\ out1 = NoOutput
    /\ out2 = NoOutput

NoSeverity == [err |-> "none", text |-> <<>>, num |-> 0]

SevIdle ==
    /\ sevCfg = [text |-> <<>>, number |-> <<>>, mock |-> FALSE]
    /\ sevPc = "idle"
    /\ sevInt = 0
    /\ sevOut = NoSeverity
    /\ sevRecord = [text |-> <<>>, num |-> 0]

\* No traces run is followed.
NoSpan == [start |-> -1, end |-> -1]

TraceWorkers == 1..MaxTraceWorkers

TracesInit(c, pc) ==
    /\ trCfg = c
    /\ trPc = pc
    /\ trErr = "none"
    /\ trDefers = <<>>
    /\ trRegistered = FALSE
    /\ trQueue = 0
    /\ trExported = 0
    /\ trEnded = 0
    /\ trShutdown = 0
    /\ trRunning = FALSE
    /\ trSpawned = 0
    /\ trWg = 0
    /\ trClosed = FALSE
    /\ trAgg = "none"
    /\ trAggCount = 0
    /\ totalTraces = 0
    /\ trFinal = -1
    /\ trExited = FALSE
    /\ trPanic = FALSE
    /\ trNow = 0
    /\ trSleepUntil = -1
    /\ twpc = [w \in TraceWorkers |-> "idle"]
    /\ twNum = [w \in TraceWorkers |-> 0]
    /\ twChildSpans = [w \in TraceWorkers |-> 0]
    /\ twI = [w \in TraceWorkers |-> 0]
    /\ twJ = [w \in TraceWorkers |-> 0]
    /\ spanStart = [w \in TraceWorkers |-> -1]
    /\ spanEnd = [w \in TraceWorkers |-> -1]
    /\ endTimestamp = [w \in TraceWorkers |-> -1]
    /\ twParent = [w \in TraceWorkers |-> NoSpan]
    /\ twChildren = [w \in TraceWorkers |-> <<>>]

TracesIdle ==
    TracesInit([workers |-> 0, numTraces |-> 0, duration |-> 0, children |-> 0,
                spanDuration |-> 0, batch |-> FALSE, mock |-> "none"], "idle")

\* No concurrent caller of the mock template engine is followed.
Expanders == 1..MaxExpanders

MockInit(pc) ==
    /\ fakerInstance = 1
    /\ fakerMutex = [writer |-> FALSE, readers |-> 0]
    /\ mpc = pc
    /\ reshuffles = 1
    /\ epc = [e \in Expanders |-> pc]
    /\ currentFaker = [e \in Expanders |-> 0]
    /\ drawnFrom = [e \in Expanders |-> <<>>]

SideIdle == TracesIdle /\ MockInit("off")

InitWith(configs) == InitGen(configs) /\ AttrIdle /\ SevIdle /\ SideIdle

\* Unthrottled runs of every worker count, count and duration.
Configs ==
    [workers : 1..MaxWorkers, count : 0..MaxCount, duration : 0..MaxDuration,
     period : {0}, mock : MockKinds, traceID : {NoID}, spanID : {NoID}]

Init == InitWith(Configs)

\* Configurations that differ in what Validate looks at: count, duration and
\* the two identifiers.
TraceIDs ==
    {NoID, GoodTraceID, ShortTraceID, LongTraceID, NonHexTraceID, SpanSizedTraceID}

SpanIDs == {NoID, GoodSpanID, ShortSpanID, NonHexSpanID, TraceSizedSpanID}

ValidateConfigs ==
    [workers : {1}, count : -1..1, duration : -1..1, period : {0},
     mock : {"none"}, traceID : TraceIDs, spanID : SpanIDs]

InitValidate == InitWith(ValidateConfigs)

\* One throttled worker under a total duration.
RateConfigs ==
    [workers : {1}, count : 0..1, duration : 1..MaxRateDuration, period : 1..MaxPeriod,
     mock : {"none"}, traceID : {NoID}, spanID : {NoID}]

InitRate == InitWith(RateConfigs)

\* --------------------------------------------------------------------- run
\* `if c.TotalDuration > 0 { c.NumLogs = 0 }`
KeepNumLogs(c, n) == n

EffectiveNumLogs(c, n) == IF c.duration > 0 THEN 0 ELSE n

\* run, from Validate to the resolved rate limit.
RunValidate ==
    /\ ~exited
    /\ runPc = "validate"
    /\ LET err == Validate(cfg, numLogs) IN
       IF err # "ok"
       THEN /\ runErr' = err
            /\ runPc' = "returned"
            /\ UNCHANGED numLogs
       ELSE /\ numLogs' = EffectiveNumLogs(cfg, numLogs)
            /\ runPc' = "resource"
            /\ UNCHANGED runErr
    /\ UNCHANGED <<cfg, spawned, deferred, shutdownCalls, running, totalLogs,
                   finalCount, wgCount, progressClosed, aggPc, exited, now,
                   sleepUntil, stoppedAt>>
    /\ UNCHANGED workerVars
    /\ UNCHANGED pureVars

\* Whether expanding the resource attributes can fail.
ResourceCanFail(c) == c.mock = "fallible"

\* run: the resource attributes (Fatal on a template error), the running flag,
\* the counter, the progress channel and its aggregator goroutine.
RunResource ==
    /\ ~exited
    /\ runPc = "resource"
    /\ \E ok \in {TRUE} \cup (IF ResourceCanFail(cfg) THEN {FALSE} ELSE {}) :
         IF ok
         THEN /\ running' = TRUE
              /\ aggPc' = "recv"
              /\ runPc' = "spawn"
              /\ UNCHANGED exited
         ELSE /\ exited' = TRUE
              /\ UNCHANGED <<running, aggPc, runPc>>
    /\ UNCHANGED <<cfg, numLogs, runErr, spawned, deferred, shutdownCalls,
                   totalLogs, finalCount, wgCount, progressClosed, now,
                   sleepUntil, stoppedAt>>
    /\ UNCHANGED workerVars
    /\ UNCHANGED pureVars

\* One turn of run's loop: wg.Add(1), the worker, the deferred Shutdown and
\* the goroutine.
RunSpawn ==
    /\ ~exited
    /\ runPc = "spawn"
    /\ spawned < cfg.workers
    /\ LET w == spawned + 1 IN
       /\ wgCount' = wgCount + 1
       /\ wnum' = [wnum EXCEPT ![w] = numLogs]
       /\ deferred' = deferred + 1
       /\ wpc' = [wpc EXCEPT ![w] = "loop"]
       /\ spawned' = w
    /\ UNCHANGED <<cfg, numLogs, runPc, runErr, shutdownCalls, running,
                   totalLogs, finalCount, progressClosed, aggPc, exited, now,
                   sleepUntil, stoppedAt>>
    /\ UNCHANGED <<iter, exportCalls, wfail, leftBy, wakeAt, nextAvail, recTime>>
    /\ UNCHANGED pureVars

\* The loop is over: time.Sleep(TotalDuration) begins when a duration is set.
RunSleep ==
    /\ ~exited
    /\ runPc = "spawn"
    /\ spawned >= cfg.workers
    /\ IF cfg.duration > 0
       THEN /\ sleepUntil' = now + cfg.duration
            /\ runPc' = "sleep"
       ELSE /\ runPc' = "wgwait"
            /\ UNCHANGED sleepUntil
    /\ UNCHANGED <<cfg, numLogs, runErr, spawned, deferred, shutdownCalls,
                   running, totalLogs, finalCount, wgCount, progressClosed,
                   aggPc, exited, now, stoppedAt>>
    /\ UNCHANGED workerVars
    /\ UNCHANGED pureVars

\* time.Sleep returns, no sooner than it was asked to: running.Store(false).
RunStop ==
    /\ ~exited
    /\ runPc = "sleep"
    /\ now >= sleepUntil
    /\ running' = FALSE
    /\ stoppedAt' = now
    /\ sleepUntil' = -1
    /\ runPc' = "wgwait"
    /\ UNCHANGED <<cfg, numLogs, runErr, spawned, deferred, shutdownCalls,
                   totalLogs, finalCount, wgCount, progressClosed, aggPc,
                   exited, now>>
    /\ UNCHANGED workerVars
    /\ UNCHANGED pureVars

\* wg.Wait returns when the counter is zero.
WaitGroupReleasedAlways == TRUE

WaitGroupReleased == wgCount = 0

\* wg.Wait, close(progressCh) and the final count.
RunWait ==
    /\ ~exited
    /\ runPc = "wgwait"
    /\ WaitGroupReleased
    /\ progressClosed' = TRUE
    /\ finalCount' = totalLogs
    /\ runPc' = IF deferred = 0 THEN "returned" ELSE "defers"
    /\ runErr' = IF deferred = 0 THEN "ok" ELSE runErr
    /\ UNCHANGED <<cfg, numLogs, spawned, deferred, shutdownCalls, running,
                   totalLogs, wgCount, aggPc, exited, now, sleepUntil,
                   stoppedAt>>
    /\ UNCHANGED workerVars
    /\ UNCHANGED pureVars

\* One deferred function of run: exporter.Shutdown.  run has returned when the
\* last one has run.
RunDefer ==
    /\ ~exited
    /\ runPc = "defers"
    /\ deferred > 0
    /\ shutdownCalls' = shutdownCalls + 1
    /\ deferred' = deferred - 1
    /\ runPc' = IF deferred = 1 THEN "returned" ELSE "defers"
    /\ runErr' = IF deferred = 1 THEN "ok" ELSE runErr
    /\ UNCHANGED <<cfg, numLogs, spawned, running, totalLogs, finalCount,
                   wgCount, progressClosed, aggPc, exited, now, sleepUntil,
                   stoppedAt>>
    /\ UNCHANGED workerVars
    /\ UNCHANGED pureVars

\* The aggregator's `for range progressCh` ends when the channel is closed.
AggregatorExit ==
    /\ ~exited
    /\ aggPc = "recv"
    /\ progressClosed
    /\ aggPc' = "done"
    /\ UNCHANGED <<cfg, running, totalLogs, wgCount, exited, now>>
    /\ UNCHANGED runVars
    /\ UNCHANGED workerVars
    /\ UNCHANGED pureVars

\* ------------------------------------------------------------------ worker
\* The outcomes of building one record: "ok", or the template that failed.
BuildOutcomes(c) ==
    {"ok"} \cup (IF c.mock = "fallible" THEN {"attr", "body"} ELSE {})

\* limiter.Wait on a token bucket of burst 1 with one token every `period`
\* ticks, asked at time t when the bucket is whole again at `avail`: when the
\* wait ends.  rate.Inf never waits.
ReserveNoThrottle(t, avail, period) == t

Reserve(t, avail, period) ==
    IF period = 0 THEN 0 ELSE IF t >= avail THEN t ELSE avail

\* `w.numLogs != 0 && i >= int64(w.numLogs)`
CountReachedOffByOne(i, n) == n # 0 /\ i > n

CountReached(i, n) == n # 0 /\ i >= n

\* rf.Timestamp: time.Now() when the record is built at time t, before the call
\* of limiter.Wait that returns at `at`.
RecordTimestamp(t, at) == t

\* The head of the loop: running.Load(), the attributes (Fatal on a template
\* error), the body (break on a template error), the record and the call of
\* limiter.Wait; wg.Done() when the loop is left.  In an unthrottled run the
\* number of iterations followed is capped at MaxExports.
WorkerIterate(w) ==
    /\ ~exited
    /\ wpc[w] = "loop"
    /\ IF ~running
       THEN /\ wpc' = [wpc EXCEPT ![w] = "done"]
            /\ leftBy' = [leftBy EXCEPT ![w] = "flag"]
            /\ wgCount' = wgCount - 1
            /\ UNCHANGED <<wfail, exited, wakeAt, nextAvail, recTime>>
       ELSE /\ cfg.period = 0 => exportCalls[w] < MaxExports
            /\ \E outcome \in BuildOutcomes(cfg) :
                 CASE outcome = "attr" ->
                        /\ wfail' = [wfail EXCEPT ![w] = "attr"]
                        /\ exited' = TRUE
                        /\ UNCHANGED <<wpc, leftBy, wgCount, wakeAt, nextAvail, recTime>>
                   [] outcome = "body" ->
                        /\ wfail' = [wfail EXCEPT ![w] = "body"]
                        /\ wpc' = [wpc EXCEPT ![w] = "done"]
                        /\ leftBy' = [leftBy EXCEPT ![w] = "body"]
                        /\ wgCount' = wgCount - 1
                        /\ UNCHANGED <<exited, wakeAt, nextAvail, recTime>>
                   [] outcome = "ok" ->
                        LET at == Reserve(now, nextAvail[w], cfg.period) IN
                        /\ recTime' = [recTime EXCEPT ![w] = RecordTimestamp(now, at)]
                        /\ wakeAt' = [wakeAt EXCEPT ![w] = at]
                        /\ nextAvail' = [nextAvail EXCEPT ![w] =
                               IF cfg.period = 0 THEN 0 ELSE at + cfg.period]
                        /\ wpc' = [wpc EXCEPT ![w] = "wait"]
                        /\ UNCHANGED <<wfail, exited, leftBy, wgCount>>
    /\ UNCHANGED <<cfg, running, totalLogs, aggPc, now>>
    /\ UNCHANGED runVars
    /\ UNCHANGED <<wnum, iter, exportCalls>>
    /\ UNCHANGED pureVars

\* limiter.Wait returns and exporter.Export is called: it returns nil, or an
\* error and the worker calls logger.Fatal.  limiter.Wait is given
\* context.Background() and a burst of 1: it never returns an error.
WorkerExport(w) ==
    /\ ~exited
    /\ wpc[w] = "wait"
    /\ now >= wakeAt[w]
    /\ exportCalls' = [exportCalls EXCEPT ![w] = @ + 1]
    /\ \E ok \in BOOLEAN :
         IF ok
         THEN /\ wpc' = [wpc EXCEPT ![w] = "count"]
              /\ UNCHANGED <<wfail, exited>>
         ELSE /\ wfail' = [wfail EXCEPT ![w] = "export"]
              /\ exited' = TRUE
              /\ UNCHANGED wpc
    /\ UNCHANGED <<cfg, running, totalLogs, wgCount, aggPc, now>>
    /\ UNCHANGED runVars
    /\ UNCHANGED <<wnum, iter, leftBy, wakeAt, nextAvail, recTime>>
    /\ UNCHANGED pureVars

\* atomic.AddInt64(w.logsCounter, 1): the counter after the add.
AddOnStaleZero(v, delta) == delta

AtomicAddInt64(v, delta) == v + delta

\* i++, the atomic add and the count check; wg.Done() when the count is reached.
WorkerCount(w) ==
    /\ ~exited
    /\ wpc[w] = "count"
    /\ iter' = [iter EXCEPT ![w] = @ + 1]
    /\ totalLogs' = AtomicAddInt64(totalLogs, 1)
    /\ IF CountReached(iter[w] + 1, wnum[w])
       THEN /\ wpc' = [wpc EXCEPT ![w] = "done"]
            /\ leftBy' = [leftBy EXCEPT ![w] = "count"]
            /\ wgCount' = wgCount - 1
       ELSE /\ wpc' = [wpc EXCEPT ![w] = "loop"]
            /\ UNCHANGED <<leftBy, wgCount>>
    /\ UNCHANGED <<cfg, running, aggPc, exited, now>>
    /\ UNCHANGED runVars
    /\ recTime' = [recTime EXCEPT ![w] = -1]
    /\ UNCHANGED <<wnum, exportCalls, wfail, wakeAt, nextAvail>>
    /\ UNCHANGED pureVars

\* -------------------------------------------------------------------- time
\* Time passes freely for as long as the configured duration.
Horizon(c) == c.duration

\* Past the horizon time is followed while it is waited for: by run in
\* time.Sleep, or by a worker in limiter.Wait once the flag is false.
TimeAwaited ==
    \/ runPc = "sleep" /\ now < sleepUntil
    \/ ~running /\ \E w \in Workers : wpc[w] = "wait" /\ now < wakeAt[w]

\* Time passes while run is between its spawn loop and its return.
Tick ==
    /\ ~exited
    /\ runPc \in {"spawn", "sleep", "wgwait"}
    /\ now < Horizon(cfg) \/ TimeAwaited
    /\ now' = now + 1
    /\ UNCHANGED <<cfg, running, totalLogs, wgCount, aggPc, exited>>
    /\ UNCHANGED runVars
    /\ UNCHANGED workerVars
    /\ UNCHANGED pureVars

Next ==
    \/ RunValidate
    \/ RunResource
    \/ RunSpawn
    \/ RunSleep
    \/ RunStop
    \/ RunWait
    \/ RunDefer
    \/ AggregatorExit
    \/ \E w \in Workers : WorkerIterate(w)
    \/ \E w \in Workers : WorkerExport(w)
    \/ \E w \in Workers : WorkerCount(w)
    \/ Tick

Spec == Init /\ [][Next]_vars

SpecValidate == InitValidate /\ [][Next]_vars

\* The scheduler runs a goroutine that can run, and time passes: a behaviour
\* does not stop while a step is possible.
SpecLive == Init /\ [][Next]_vars /\ WF_vars(Next)

\* A step that needs no time to pass is enabled: run or a worker is neither
\* sleeping, nor waiting for a token, nor waiting for the WaitGroup.
Urgent ==
    \/ runPc = "spawn"
    \/ runPc = "sleep" /\ now >= sleepUntil
    \/ runPc = "wgwait" /\ WaitGroupReleased
    \/ \E w \in Workers :
          \/ wpc[w] \in {"loop", "count"}
          \/ wpc[w] = "wait" /\ now >= wakeAt[w]

\* Time passes only when nothing else can happen: every step of run and of
\* the workers, Export included, takes no time.
TickPrompt == ~Urgent /\ Tick

NextPrompt ==
    \/ RunValidate
    \/ RunResource
    \/ RunSpawn
    \/ RunSleep
    \/ RunStop
    \/ RunWait
    \/ RunDefer
    \/ AggregatorExit
    \/ \E w \in Workers : WorkerIterate(w)
    \/ \E w \in Workers : WorkerExport(w)
    \/ \E w \in Workers : WorkerCount(w)
    \/ TickPrompt

\* One throttled worker whose steps take no time.
SpecRate == InitRate /\ [][NextPrompt]_vars

\* ------------------------------------------------------ attribute pipeline
\* The configurations the attribute functions are followed on.  Without mock
\* data the body and the seed are not looked at; the longer sensitive-data
\* lists are followed without mock data and with a service name.
AttrConfigs ==
    {c \in [attrs : RawMaps, sens : SensitiveLists, mock : BOOLEAN,
            svc : {<<>>, <<"svc">>}, body : {PlainString, TplFake, TplInvalid},
            seed : {0, 1}] :
        /\ ~c.mock => (c.body = PlainString /\ c.seed = 0)
        /\ (c.mock /\ c.seed = 0) => (c.body = TplFake /\ c.svc = <<"svc">>)
        /\ Len(c.sens) > 1 => (~c.mock /\ c.svc = <<"svc">>)}

\* run is not followed.
GenIdle ==
    InitGen({[workers |-> 1, count |-> 1, duration |-> 0, period |-> 0,
              mock |-> "none", traceID |-> NoID, spanID |-> NoID]})

\* The configuration is loaded, InitAttributes has not run.
InitAttrs ==
    /\ GenIdle
    /\ SevIdle
    /\ SideIdle
    /\ acfg \in AttrConfigs
    /\ attrMap = acfg.attrs
    /\ faker = 1
    /\ apc = "loaded"
    /\ afn = "none"
    /\ out1 = NoOutput
    /\ out2 = NoOutput

\* Config.InitAttributes: the sensitive-data marker is put into the map.
InitAttributes ==
    /\ apc = "loaded"
    /\ attrMap' = InjectSensitiveDataMarker(attrMap, acfg.sens)
    /\ apc' = "inited"
    /\ UNCHANGED <<acfg, faker, afn, out1, out2>>
    /\ UNCHANGED <<genVars, sevVars, sideVars>>

\* InitMockData(c.MockSeed) at the start of a run: of the first one, and of a
\* second one of the same configuration (followed with mock data).  Seed 0
\* takes the seed from the clock.
InitMockData ==
    /\ \/ apc = "inited" /\ apc' = "ready"
       \/ apc = "called" /\ acfg.mock /\ apc' = "restarted"
    /\ IF acfg.seed = 0
       THEN faker' \in FakerStates
       ELSE faker' = NewFaker(acfg.seed)
    /\ UNCHANGED <<acfg, attrMap, afn, out1, out2>>
    /\ UNCHANGED <<genVars, sevVars, sideVars>>

\* A call of the attribute function fn returned r: the first call, or the
\* second call of the same function (in the same run it is followed without
\* mock data).
Returned(fn, r) ==
    /\ \/ /\ apc = "ready"
          /\ afn' = fn
          /\ out1' = [err |-> r.err, kvs |-> r.kvs]
          /\ apc' = "called"
          /\ UNCHANGED out2
       \/ /\ apc = "restarted" \/ (apc = "called" /\ ~acfg.mock)
          /\ afn = fn
          /\ out2' = [err |-> r.err, kvs |-> r.kvs]
          /\ apc' = IF apc = "restarted" THEN "rerun" ELSE "twice"
          /\ UNCHANGED <<afn, out1>>
    /\ faker' = r.faker
    /\ UNCHANGED <<acfg, attrMap>>
    /\ UNCHANGED <<genVars, sevVars, sideVars>>

\* The map is c.ResourceAttributes: GetResourceAttrWithMockMarker.
CallGetResourceAttr ==
    \E ord \in Orders(DOMAIN attrMap) :
        Returned("resource", GetResourceAttrWithMockMarker(acfg, attrMap, ord, faker))

\* The map is c.TelemetryAttributes: GetTelemetryAttrWithMockMarker.
CallGetTelemetryAttr ==
    \E ord \in Orders(DOMAIN attrMap) :
        Returned("telemetry", GetTelemetryAttrWithMockMarker(acfg, attrMap, ord, faker))

\* The map is c.TelemetryAttributes: one iteration of simulateLogs up to the
\* attributes of its record.
CallRecordAttributes ==
    \E ord \in Orders(DOMAIN attrMap) :
        Returned("record", RecordAttributes(acfg, attrMap, ord, faker))

NextAttrs ==
    \/ InitAttributes
    \/ InitMockData
    \/ CallGetResourceAttr
    \/ CallGetTelemetryAttr
    \/ CallRecordAttributes

SpecAttrs == InitAttrs /\ [][NextAttrs]_vars

\* ------------------------------------------------- severity of one record
InitSeverity ==
    /\ GenIdle
    /\ AttrIdle
    /\ SideIdle
    /\ sevCfg \in [text : SeverityTexts, number : SeverityNumberTexts, mock : BOOLEAN]
    /\ sevPc = "start"
    /\ sevInt = 0
    /\ sevOut = NoSeverity
    /\ sevRecord = [text |-> <<>>, num |-> 0]

\* simulateLogs: the severity number, templated or not, as an int32.
SeverityNumberStep ==
    /\ sevPc = "start"
    /\ \E drawn \in Draws(sevCfg.number) :
         sevInt' = SeverityNumberOf(sevCfg.number, sevCfg.mock, drawn)
    /\ sevPc' = "parsed"
    /\ UNCHANGED <<sevCfg, sevOut, sevRecord>>
    /\ UNCHANGED <<genVars, attrVars, sideVars>>

\* simulateLogs: the call of parseSeverity.
SeverityParseStep ==
    /\ sevPc = "parsed"
    /\ sevOut' = parseSeverity(sevCfg.text, sevInt)
    /\ sevPc' = "resolved"
    /\ UNCHANGED <<sevCfg, sevInt, sevRecord>>
    /\ UNCHANGED <<genVars, attrVars, sideVars>>

\* simulateLogs: on an error of parseSeverity the configured text and the
\* number are taken as they are; the record is built and exported.
SeverityRecordStep ==
    /\ sevPc = "resolved"
    /\ sevRecord' = IF sevOut.err # "none"
                    THEN [text |-> sevCfg.text, num |-> sevInt]
                    ELSE [text |-> sevOut.text, num |-> sevOut.num]
    /\ sevPc' = "exported"
    /\ UNCHANGED <<sevCfg, sevInt, sevOut>>
    /\ UNCHANGED <<genVars, attrVars, sideVars>>

NextSeverity ==
    \/ SeverityNumberStep
    \/ SeverityParseStep
    \/ SeverityRecordStep

SpecSeverity == InitSeverity /\ [][NextSeverity]_vars

\* --------------------------------------------------------- traces generator
\* traces.Start, run and simulateTraces.  The limiter is the unthrottled one
\* (Rate 0): limiter.Wait returns nil at once.
notTraces == <<genVars, attrVars, sevVars, mockVars>>

trStartVars == <<trCfg, trErr, trDefers, trRegistered>>

trExportVars == <<trQueue, trExported, trEnded, trShutdown>>

trRunVars == <<trRunning, trSpawned, trWg, trClosed, trFinal, trSleepUntil>>

trAggVars == <<trAgg, trAggCount>>

trWorkerVars == <<twpc, twNum, twChildSpans, twI, twJ, spanStart, spanEnd,
                  endTimestamp, twParent, twChildren>>

\* The configurations followed: every child-span count, span duration and
\* batch flag with one worker and a count; several workers, a duration and
\* fallible templates with the shorter traces.
TraceConfigs ==
    {c \in [workers : TraceWorkers, numTraces : 0..MaxTraces,
            duration : 0..MaxTraceDuration, children : 0..MaxChildSpans,
            spanDuration : 1..MaxSpanDuration, batch : BOOLEAN, mock : MockKinds] :
        /\ c.workers > 1 => (c.duration = 0 /\ c.spanDuration = 1 /\ c.children <= 1)
        /\ c.duration > 0 => (c.numTraces = 0 /\ c.spanDuration = 1 /\ c.children <= 1)
        /\ c.mock = "fallible" => (c.spanDuration = 1 /\ c.children <= 1)}

InitTraces ==
    /\ GenIdle
    /\ AttrIdle
    /\ SevIdle
    /\ MockInit("off")
    /\ \E c \in TraceConfigs : TracesInit(c, "start")

\* Config.Validate of the traces configuration.
TracesValidate(c) ==
    IF c.duration <= 0 /\ c.numTraces <= 0 THEN "count" ELSE "none"

\* `int(math.Max(1, float64(c.NumChildSpans)))`
NumChildSpans(c) == IF c.children > 1 THEN c.children ELSE 1

\* Start up to the spawn loop of run: the exporter and its deferred Shutdown,
\* the batch span processor and its deferred Shutdown, the resource
\* attributes, the tracer provider, and in run the validation, the running
\* flag, the counter, the progress channel and its aggregator.  The batch span
\* processor, the only holder of the exporter, is registered when cfg.Batch
\* is set.
TracesStart ==
    /\ trPc = "start"
    /\ trDefers' = IF trCfg.batch THEN <<"exp", "ssp">> ELSE <<"exp">>
    /\ \E ok \in {TRUE} \cup (IF trCfg.mock = "fallible" THEN {FALSE} ELSE {}) :
         IF ~ok
         THEN /\ trErr' = "resource"
              /\ trPc' = "defers"
              /\ UNCHANGED <<trRegistered, trRunning, trAgg>>
         ELSE /\ trRegistered' = trCfg.batch
              /\ IF TracesValidate(trCfg) # "none"
                 THEN /\ trErr' = TracesValidate(trCfg)
                      /\ trPc' = "defers"
                      /\ UNCHANGED <<trRunning, trAgg>>
                 ELSE /\ trRunning' = TRUE
                      /\ trAgg' = "recv"
                      /\ trPc' = "spawn"
                      /\ UNCHANGED trErr
    /\ UNCHANGED <<trCfg, trSpawned, trWg, trClosed, trFinal, trSleepUntil,
                   trAggCount, totalTraces, trExited, trPanic, trNow>>
    /\ UNCHANGED trExportVars
    /\ UNCHANGED trWorkerVars
    /\ UNCHANGED notTraces

\* One turn of run's loop: wg.Add(1), the worker and its goroutine.  The
\* worker's count is NumTraces, which run has set to 0 under a duration.
TracesSpawn ==
    /\ ~trExited
    /\ trPc = "spawn"
    /\ trSpawned < trCfg.workers
    /\ LET w == trSpawned + 1 IN
       /\ trWg' = trWg + 1
       /\ twNum' = [twNum EXCEPT ![w] = IF trCfg.duration > 0 THEN 0 ELSE trCfg.numTraces]
       /\ twChildSpans' = [twChildSpans EXCEPT ![w] = NumChildSpans(trCfg)]
       /\ twpc' = [twpc EXCEPT ![w] = "loop"]
       /\ trSpawned' = w
    /\ UNCHANGED <<trPc, totalTraces, trExited, trPanic, trNow>>
    /\ UNCHANGED <<trRunning, trClosed, trFinal, trSleepUntil>>
    /\ UNCHANGED <<twI, twJ, spanStart, spanEnd, endTimestamp, twParent, twChildren>>
    /\ UNCHANGED <<trStartVars, trExportVars, trAggVars>>
    /\ UNCHANGED notTraces

\* The loop is over: time.Sleep(TotalDuration) begins when a duration is set.
TracesSleep ==
    /\ ~trExited
    /\ trPc = "spawn"
    /\ trSpawned >= trCfg.workers
    /\ IF trCfg.duration > 0
       THEN /\ trSleepUntil' = trNow + trCfg.duration
            /\ trPc' = "sleep"
       ELSE /\ trPc' = "wgwait"
            /\ UNCHANGED trSleepUntil
    /\ UNCHANGED <<totalTraces, trExited, trPanic, trNow>>
    /\ UNCHANGED <<trRunning, trSpawned, trWg, trClosed, trFinal>>
    /\ UNCHANGED <<trStartVars, trExportVars, trAggVars, trWorkerVars>>
    /\ UNCHANGED notTraces

\* time.Sleep returns: running.Store(false).
TracesStop ==
    /\ ~trExited
    /\ trPc = "sleep"
    /\ trNow >= trSleepUntil
    /\ trRunning' = FALSE
    /\ trPc' = "wgwait"
    /\ UNCHANGED <<totalTraces, trExited, trPanic, trNow>>
    /\ UNCHANGED <<trSpawned, trWg, trClosed, trFinal, trSleepUntil>>
    /\ UNCHANGED <<trStartVars, trExportVars, trAggVars, trWorkerVars>>
    /\ UNCHANGED notTraces

\* wg.Wait returns when the counter is zero.
TracesWaitGroupReleasedAlways == TRUE

TracesWaitGroupReleased == trWg = 0

\* wg.Wait, close(progressCh), the final count; run returns nil.
TracesWait ==
    /\ ~trExited
    /\ trPc = "wgwait"
    /\ TracesWaitGroupReleased
    /\ trClosed' = TRUE
    /\ trFinal' = totalTraces
    /\ trErr' = "ok"
    /\ trPc' = "defers"
    /\ UNCHANGED <<totalTraces, trExited, trPanic, trNow>>
    /\ UNCHANGED <<trRunning, trSpawned, trWg, trSleepUntil>>
    /\ UNCHANGED <<trCfg, trDefers, trRegistered>>
    /\ UNCHANGED <<trExportVars, trAggVars, trWorkerVars>>
    /\ UNCHANGED notTraces

\* The deferred functions of Start, last registered first: Shutdown of the
\* batch span processor hands its queue to the exporter, then the exporter's
\* Shutdown.  Start has returned when the last one has run.
TracesDefer ==
    /\ ~trExited
    /\ trPc = "defers"
    /\ trDefers # <<>>
    /\ LET f == trDefers[Len(trDefers)] IN
       IF f = "ssp"
       THEN /\ trExported' = trExported + trQueue
            /\ trQueue' = 0
            /\ UNCHANGED trShutdown
       ELSE /\ trShutdown' = trShutdown + 1
            /\ UNCHANGED <<trExported, trQueue>>
    /\ trDefers' = SubSeq(trDefers, 1, Len(trDefers) - 1)
    /\ trPc' = IF Len(trDefers) = 1 THEN "returned" ELSE "defers"
    /\ UNCHANGED <<trCfg, trErr, trRegistered, trEnded>>
    /\ UNCHANGED <<totalTraces, trExited, trPanic, trNow>>
    /\ UNCHANGED <<trRunVars, trAggVars, trWorkerVars>>
    /\ UNCHANGED notTraces

\* The goroutine of the batch span processor hands the queue to the exporter.
TracesBatchExport ==
    /\ ~trExited
    /\ trRegistered
    /\ trQueue > 0
    /\ "ssp" \in {trDefers[i] : i \in 1..Len(trDefers)}
    /\ trExported' = trExported + trQueue
    /\ trQueue' = 0
    /\ UNCHANGED <<trEnded, trShutdown>>
    /\ UNCHANGED <<trPc, totalTraces, trExited, trPanic, trNow>>
    /\ UNCHANGED <<trStartVars, trRunVars, trAggVars, trWorkerVars>>
    /\ UNCHANGED notTraces

\* The aggregator's `for range progressCh`: count++ after a receive.
TracesAggregatorCount ==
    /\ ~trExited
    /\ trAgg = "got"
    /\ trAggCount' = trAggCount + 1
    /\ trAgg' = "recv"
    /\ UNCHANGED <<trPc, totalTraces, trExited, trPanic, trNow>>
    /\ UNCHANGED <<trStartVars, trExportVars, trRunVars, trWorkerVars>>
    /\ UNCHANGED notTraces

\* The loop of the aggregator ends when the channel is closed.
TracesAggregatorExit ==
    /\ ~trExited
    /\ trAgg = "recv"
    /\ trClosed
    /\ trAgg' = "done"
    /\ UNCHANGED trAggCount
    /\ UNCHANGED <<trPc, totalTraces, trExited, trPanic, trNow>>
    /\ UNCHANGED <<trStartVars, trExportVars, trRunVars, trWorkerVars>>
    /\ UNCHANGED notTraces

\* The head of the loop: running.Load(), spanStart and spanEnd, limiter.Wait,
\* the attributes (Fatal on a template error) and the start of the parent
\* span; the log line and wg.Done() when the loop is left.  Under a duration
\* the number of iterations followed is capped at MaxTraceIterations.
TraceBegin(w) ==
    /\ ~trExited
    /\ twpc[w] = "loop"
    /\ IF ~trRunning
       THEN /\ twpc' = [twpc EXCEPT ![w] = "done"]
            /\ trWg' = trWg - 1
            /\ UNCHANGED <<trExited, twJ, spanStart, spanEnd, endTimestamp,
                           twParent, twChildren>>
       ELSE /\ twNum[w] = 0 => twI[w] < MaxTraceIterations
            /\ \E ok \in {TRUE} \cup (IF trCfg.mock = "fallible" THEN {FALSE} ELSE {}) :
                 IF ~ok
                 THEN /\ trExited' = TRUE
                      /\ UNCHANGED <<twpc, trWg, twJ, spanStart, spanEnd,
                                     endTimestamp, twParent, twChildren>>
                 ELSE /\ spanStart' = [spanStart EXCEPT ![w] = trNow]
                      /\ spanEnd' = [spanEnd EXCEPT ![w] = trNow + trCfg.spanDuration]
                      /\ twParent' = [twParent EXCEPT ![w] = [start |-> trNow, end |-> -1]]
                      /\ twChildren' = [twChildren EXCEPT ![w] = <<>>]
                      /\ endTimestamp' = [endTimestamp EXCEPT ![w] = -1]
                      /\ twJ' = [twJ EXCEPT ![w] = 0]
                      /\ twpc' = [twpc EXCEPT ![w] = "children"]
                      /\ UNCHANGED <<trExited, trWg>>
    /\ UNCHANGED <<trPc, totalTraces, trPanic, trNow>>
    /\ UNCHANGED <<trRunning, trSpawned, trClosed, trFinal, trSleepUntil>>
    /\ UNCHANGED <<twNum, twChildSpans, twI>>
    /\ UNCHANGED <<trStartVars, trExportVars, trAggVars>>
    /\ UNCHANGED notTraces

\* One turn of the inner loop: limiter.Wait, the attributes (Fatal on a
\* template error), the child span from spanStart to spanEnd, and the next
\* spanStart and spanEnd.
TraceChild(w) ==
    /\ ~trExited
    /\ twpc[w] = "children"
    /\ twJ[w] < twChildSpans[w]
    /\ \E ok \in {TRUE} \cup (IF trCfg.mock = "fallible" THEN {FALSE} ELSE {}) :
         IF ~ok
         THEN /\ trExited' = TRUE
              /\ UNCHANGED <<twJ, spanStart, spanEnd, endTimestamp, twChildren,
                             trQueue, trEnded>>
         ELSE /\ twChildren' = [twChildren EXCEPT ![w] =
                     Append(@, [start |-> spanStart[w], end |-> spanEnd[w]])]
              /\ endTimestamp' = [endTimestamp EXCEPT ![w] = spanEnd[w]]
              /\ trEnded' = trEnded + 1
              /\ trQueue' = IF trRegistered THEN trQueue + 1 ELSE trQueue
              /\ spanStart' = [spanStart EXCEPT ![w] = spanEnd[w]]
              /\ spanEnd' = [spanEnd EXCEPT ![w] = spanEnd[w] + trCfg.spanDuration]
              /\ twJ' = [twJ EXCEPT ![w] = @ + 1]
              /\ UNCHANGED trExited
    /\ UNCHANGED <<trPc, totalTraces, trPanic, trNow>>
    /\ UNCHANGED <<trExported, trShutdown>>
    /\ UNCHANGED <<twpc, twNum, twChildSpans, twI, twParent>>
    /\ UNCHANGED <<trStartVars, trRunVars, trAggVars>>
    /\ UNCHANGED notTraces

\* The inner loop is over: sp.End(endTimestamp), i++ and the atomic add.  A
\* nil endTimestamp is a nil option given to End, a call on a nil interface:
\* the process ends in a panic.
TraceParentEnd(w) ==
    /\ ~trExited
    /\ twpc[w] = "children"
    /\ twJ[w] >= twChildSpans[w]
    /\ IF endTimestamp[w] = -1
       THEN /\ trExited' = TRUE
            /\ UNCHANGED <<twParent, trEnded, trQueue, twI, totalTraces, twpc>>
       ELSE /\ twParent' = [twParent EXCEPT ![w].end = endTimestamp[w]]
            /\ trEnded' = trEnded + 1
            /\ trQueue' = IF trRegistered THEN trQueue + 1 ELSE trQueue
            /\ twI' = [twI EXCEPT ![w] = @ + 1]
            /\ totalTraces' = totalTraces + 1
            /\ twpc' = [twpc EXCEPT ![w] = "send"]
            /\ UNCHANGED trExited
    /\ UNCHANGED <<trPc, trPanic, trNow>>
    /\ UNCHANGED <<trExported, trShutdown>>
    /\ UNCHANGED <<twNum, twChildSpans, twJ, spanStart, spanEnd, endTimestamp,
                   twChildren>>
    /\ UNCHANGED <<trStartVars, trRunVars, trAggVars>>
    /\ UNCHANGED notTraces

\* `w.progressCh <- struct{}{}` on the unbuffered channel: the aggregator
\* receives; a send on a closed channel panics.
TraceSend(w) ==
    /\ ~trExited
    /\ twpc[w] = "send"
    /\ IF trClosed
       THEN /\ trPanic' = TRUE
            /\ trExited' = TRUE
            /\ UNCHANGED <<trAgg, twpc>>
       ELSE /\ trAgg = "recv"
            /\ trAgg' = "got"
            /\ twpc' = [twpc EXCEPT ![w] = "check"]
            /\ UNCHANGED <<trPanic, trExited>>
    /\ UNCHANGED <<trPc, totalTraces, trNow, trAggCount>>
    /\ UNCHANGED <<twNum, twChildSpans, twI, twJ, spanStart, spanEnd,
                   endTimestamp, twParent, twChildren>>
    /\ UNCHANGED <<trStartVars, trExportVars, trRunVars>>
    /\ UNCHANGED notTraces

\* The count check; the log line and wg.Done() when the count is reached.
TraceCheck(w) ==
    /\ ~trExited
    /\ twpc[w] = "check"
    /\ IF CountReached(twI[w], twNum[w])
       THEN /\ twpc' = [twpc EXCEPT ![w] = "done"]
            /\ trWg' = trWg - 1
       ELSE /\ twpc' = [twpc EXCEPT ![w] = "loop"]
            /\ UNCHANGED trWg
    /\ twParent' = [twParent EXCEPT ![w] = NoSpan]
    /\ twChildren' = [twChildren EXCEPT ![w] = <<>>]
    /\ UNCHANGED <<trPc, totalTraces, trExited, trPanic, trNow>>
    /\ UNCHANGED <<trRunning, trSpawned, trClosed, trFinal, trSleepUntil>>
    /\ UNCHANGED <<twNum, twChildSpans, twI, twJ, spanStart, spanEnd, endTimestamp>>
    /\ UNCHANGED <<trStartVars, trExportVars, trAggVars>>
    /\ UNCHANGED notTraces

\* Time passes while run is between its spawn loop and its return, for as
\* long as the configured duration or the sleep of run.
TracesTick ==
    /\ ~trExited
    /\ trPc \in {"spawn", "sleep", "wgwait"}
    /\ trNow < trCfg.duration \/ (trPc = "sleep" /\ trNow < trSleepUntil)
    /\ trNow' = trNow + 1
    /\ UNCHANGED <<trPc, totalTraces, trExited, trPanic>>
    /\ UNCHANGED <<trStartVars, trExportVars, trRunVars, trAggVars, trWorkerVars>>
    /\ UNCHANGED notTraces

NextTraces ==
    \/ TracesStart
    \/ TracesSpawn
    \/ TracesSleep
    \/ TracesStop
    \/ TracesWait
    \/ TracesDefer
    \/ TracesBatchExport
    \/ TracesAggregatorCount
    \/ TracesAggregatorExit
    \/ \E w \in TraceWorkers : TraceBegin(w)
    \/ \E w \in TraceWorkers : TraceChild(w)
    \/ \E w \in TraceWorkers : TraceParentEnd(w)
    \/ \E w \in TraceWorkers : TraceSend(w)
    \/ \E w \in TraceWorkers : TraceCheck(w)
    \/ TracesTick

SpecTraces == InitTraces /\ [][NextTraces]_vars

\* The scheduler runs a goroutine that can run, and time passes.
SpecTracesLive == InitTraces /\ [][NextTraces]_vars /\ WF_vars(NextTraces)

\* ----------------------------------------- mock template engine, concurrent
\* ProcessMockTemplate called by several goroutines while InitMockData or
\* ReshuffleMockData replaces the shared instance.  Instance 1 is the one
\* InitMockData made at startup.
notMock == <<genVars, attrVars, sevVars, traceVars>>

InitMock ==
    /\ GenIdle
    /\ AttrIdle
    /\ SevIdle
    /\ TracesIdle
    /\ MockInit("idle")

\* InitMockData / ReshuffleMockData: fakerMutex.Lock()
MockLock ==
    /\ mpc = "idle"
    /\ reshuffles < MaxReshuffles
    /\ ~fakerMutex.writer
    /\ fakerMutex.readers = 0
    /\ fakerMutex' = [fakerMutex EXCEPT !.writer = TRUE]
    /\ mpc' = "locked"
    /\ UNCHANGED <<fakerInstance, reshuffles, epc, currentFaker, drawnFrom>>
    /\ UNCHANGED notMock

\* `fakerInstance = gofakeit.New(...)`: the new instance is made, then the
\* pointer is stored.
MockStore ==
    /\ mpc = "locked"
    /\ reshuffles' = reshuffles + 1
    /\ fakerInstance' = reshuffles + 1
    /\ mpc' = "stored"
    /\ UNCHANGED <<fakerMutex, epc, currentFaker, drawnFrom>>
    /\ UNCHANGED notMock

\* fakerMutex.Unlock()
MockUnlock ==
    /\ mpc = "stored"
    /\ fakerMutex' = [fakerMutex EXCEPT !.writer = FALSE]
    /\ mpc' = "idle"
    /\ UNCHANGED <<fakerInstance, reshuffles, epc, currentFaker, drawnFrom>>
    /\ UNCHANGED notMock

\* ProcessMockTemplate: fakerMutex.RLock()
ExpandRLock(e) ==
    /\ epc[e] = "idle"
    /\ ~fakerMutex.writer
    /\ fakerMutex' = [fakerMutex EXCEPT !.readers = @ + 1]
    /\ epc' = [epc EXCEPT ![e] = "rlocked"]
    /\ UNCHANGED <<fakerInstance, mpc, reshuffles, currentFaker, drawnFrom>>
    /\ UNCHANGED notMock

\* `currentFaker := fakerInstance`
ExpandLoad(e) ==
    /\ epc[e] = "rlocked"
    /\ currentFaker' = [currentFaker EXCEPT ![e] = fakerInstance]
    /\ epc' = [epc EXCEPT ![e] = "loaded"]
    /\ UNCHANGED <<fakerInstance, fakerMutex, mpc, reshuffles, drawnFrom>>
    /\ UNCHANGED notMock

\* fakerMutex.RUnlock()
ExpandRUnlock(e) ==
    /\ epc[e] = "loaded"
    /\ fakerMutex' = [fakerMutex EXCEPT !.readers = @ - 1]
    /\ epc' = [epc EXCEPT ![e] = "template"]
    /\ UNCHANGED <<fakerInstance, mpc, reshuffles, currentFaker, drawnFrom>>
    /\ UNCHANGED notMock

\* The instance gofakeit.Template is given as Data: the local currentFaker.
TemplateDataShared(local, shared) == shared

TemplateData(local, shared) == local

\* gofakeit.Template(tmplStr, &TemplateOptions{Data: currentFaker}): one draw
\* of the expansion, outside the lock; the call returns after MaxDraws draws.
ExpandDraw(e) ==
    /\ epc[e] = "template"
    /\ drawnFrom' = [drawnFrom EXCEPT ![e] =
           Append(@, TemplateData(currentFaker[e], fakerInstance))]
    /\ epc' = [epc EXCEPT ![e] =
           IF Len(drawnFrom[e]) + 1 >= MaxDraws THEN "returned" ELSE "template"]
    /\ UNCHANGED <<fakerInstance, fakerMutex, mpc, reshuffles, currentFaker>>
    /\ UNCHANGED notMock

NextMock ==
    \/ MockLock
    \/ MockStore
    \/ MockUnlock
    \/ \E e \in Expanders : ExpandRLock(e)
    \/ \E e \in Expanders : ExpandLoad(e)
    \/ \E e \in Expanders : ExpandRUnlock(e)
    \/ \E e \in Expanders : ExpandDraw(e)

SpecMock == InitMock /\ [][NextMock]_vars

\* ------------------------------------------------------------------ claims
RECURSIVE SumTo(_, _)
SumTo(f, n) == IF n = 0 THEN 0 ELSE f[n] + SumTo(f, n - 1)

NoWorkerFailed == \A w \in Workers : wfail[w] = "none"

RunReturnedNil == runPc = "returned" /\ runErr = "ok"

\* C1: with duration = 0 and per-worker count N > 0, when run returns every
\* worker has called Export exactly N times, W x N calls in all, provided no
\* export and no template expansion failed.
C1_FixedCount ==
    (RunReturnedNil /\ cfg.duration = 0 /\ cfg.count > 0 /\ NoWorkerFailed)
    => /\ \A w \in 1..cfg.workers : exportCalls[w] = cfg.count
       /\ SumTo(exportCalls, MaxWorkers) = cfg.workers * cfg.count

C1_Witness ==
    /\ RunReturnedNil
    /\ cfg.duration = 0
    /\ cfg.workers = 2
    /\ cfg.count = 2
    /\ NoWorkerFailed
    /\ exportCalls = [w \in Workers |-> IF w <= 2 THEN 2 ELSE 0]

\* C2: run does not return while a worker it spawned is still in its loop:
\* when run has returned, every spawned worker has called wg.Done and is past
\* its last Export.
C2_NoReturnBeforeWorkers ==
    runPc = "returned"
    => /\ \A w \in 1..spawned : wpc[w] = "done"
       /\ wgCount = 0

C2_Witness ==
    /\ RunReturnedNil
    /\ spawned = 2
    /\ \A w \in 1..2 : wpc[w] = "done" /\ exportCalls[w] >= 1

\* C3 (as claimed): in a run that spawned workers the exporter's Shutdown is
\* invoked exactly once.
C3_ShutdownOnce ==
    (runPc = "returned" /\ spawned >= 1) => shutdownCalls = 1

\* C4 (as claimed): a worker-local failure never ends the process.
C4_FailureKeepsProcess ==
    \A w \in Workers : wfail[w] # "none" => ~exited

\* C5 (as claimed): a worker whose Export returned an error makes no further
\* Export call, leaves the counter alone and signals completion.
C5_ExportErrorSignalsDone ==
    \A w \in Workers :
        wfail[w] = "export" => (wpc[w] = "done" /\ totalLogs = SumTo(iter, MaxWorkers))

\* C6 (as claimed): a worker whose attribute building or body expansion failed
\* leaves its loop without exporting the record, run completes without error
\* and its final count is the number of records exported.
C6_TemplateErrorPartialCount ==
    /\ \A w \in Workers :
           wfail[w] \in {"attr", "body"} => (wpc[w] = "done" /\ exportCalls[w] = iter[w])
    /\ RunReturnedNil => finalCount = SumTo(iter, MaxWorkers)

\* C7 (as claimed): with a duration D > 0, once run sleeps it stores false in
\* the running flag, every worker leaves its loop and run returns.
C7_DurationRunReturns ==
    (cfg.duration > 0 /\ runPc = "sleep")
    ~> (~running /\ runPc = "returned" /\ \A w \in 1..spawned : wpc[w] = "done")

\* C8 (as claimed): with a duration > 0 a worker stops only after the running
\* flag has become false.
C8_StopsOnlyOnFlag ==
    cfg.duration > 0 => \A w \in Workers : wpc[w] = "done" => ~running

\* C8 (amended): with a duration > 0 a worker never leaves its loop because
\* its count was reached; it leaves when the running flag is false, or when
\* the expansion of its log body failed.
C8_CountDisabled ==
    cfg.duration > 0
    => \A w \in Workers :
           wpc[w] = "done"
           => /\ leftBy[w] # "count"
              /\ ~running \/ wfail[w] = "body"

C8_Witness ==
    /\ cfg.duration > 0
    /\ cfg.count = 1
    /\ wpc[1] = "done"
    /\ leftBy[1] = "flag"
    /\ exportCalls[1] >= 2

\* What C9 says Validate rejects.
C9_Rejected ==
    \/ cfg.duration <= 0 /\ cfg.count <= 0
    \/ cfg.traceID # NoID /\ ~(Len(cfg.traceID) = 32 /\ IsHex(cfg.traceID))
    \/ cfg.spanID # NoID /\ ~(Len(cfg.spanID) = 16 /\ IsHex(cfg.spanID))

\* C9: when Validate rejects the configuration, run returns that error with
\* no worker spawned and no Export call; a 32-hex trace ID with a 16-hex span
\* ID is accepted.
C9_ValidationAborts ==
    runPc # "validate"
    => /\ C9_Rejected
          => /\ runPc = "returned"
             /\ runErr \in {"count", "trace", "span"}
             /\ spawned = 0
             /\ \A w \in Workers : wpc[w] = "idle" /\ exportCalls[w] = 0
       /\ (cfg.traceID = GoodTraceID /\ cfg.spanID = GoodSpanID
             /\ (cfg.duration > 0 \/ cfg.count > 0))
          => runErr \in {"none", "ok"}

C9_Witness ==
    /\ runPc = "returned"
    /\ runErr = "span"
    /\ cfg.traceID = GoodTraceID
    /\ cfg.spanID = NonHexSpanID
    /\ cfg.count = 1

C11_SensitiveMarker ==
    apc \notin {"idle", "loaded"}
    => LET raw == acfg.attrs
           listed == {acfg.sens[i] : i \in 1..Len(acfg.sens)}
           present == SelectSeq(acfg.sens, LAMBDA k : k \in DOMAIN raw)
       IN  /\ \A k \in DOMAIN raw : attrMap[k] = raw[k]
           /\ IF listed \cap DOMAIN raw = {}
              THEN DOMAIN attrMap = DOMAIN raw
              ELSE /\ DOMAIN attrMap = DOMAIN raw \cup {SensitiveMarkerKey}
                   /\ attrMap[SensitiveMarkerKey].type = "string"
                   /\ attrMap[SensitiveMarkerKey].val = Join(present)
                   /\ \A k \in listed :
                          Contains(attrMap[SensitiveMarkerKey].val, k) <=> k \in DOMAIN raw

C11_Witness ==
    /\ apc = "inited"
    /\ acfg.sens = <<"absent", "k1">>
    /\ DOMAIN acfg.attrs = {"k1", "k2"}
    /\ attrMap[SensitiveMarkerKey] = StringValue(<<"k1">>)

\* The keys of the map whose value is a string holding both "{{" and "}}".
TemplatedKeys(attrs) ==
    {k \in DOMAIN attrs :
        /\ attrs[k].type = "string"
        /\ Contains(attrs[k].val, "{{")
        /\ Contains(attrs[k].val, "}}")}

\* The places of the key k in a slice of attributes.
Places(kvs, k) == {i \in 1..Len(kvs) : kvs[i].key = k}

\* C12: what ProcessMockMarkers returns without error holds a trazr.mock.data
\* attribute exactly when a templated value was expanded; its value lists the
\* expanded keys, each once, and nothing else.
C12_MockMarker ==
    (apc = "called" /\ afn = "telemetry" /\ acfg.mock /\ ~out1.err)
    => LET expanded == TemplatedKeys(attrMap)
           marks == Places(out1.kvs, MockMarkerKey)
       IN  IF expanded = {}
           THEN marks = {}
           ELSE /\ marks = {Len(out1.kvs)}
                /\ LET val == out1.kvs[Len(out1.kvs)].val IN
                   /\ {val[i] : i \in 1..Len(val)} \ {","} = expanded
                   /\ Len(val) = 2 * Cardinality(expanded) - 1

C12_Witness ==
    /\ apc = "called"
    /\ afn = "telemetry"
    /\ acfg.mock
    /\ ~out1.err
    /\ TemplatedKeys(attrMap) = {"k1", "k2"}
    /\ out1.kvs[Len(out1.kvs)] = KV(MockMarkerKey, "STRING", <<"k2", ",", "k1">>)

\* The band of a severity number, and whether a text names another band.
BandOf(n) == SeverityBands[((n - 1) \div 4) + 1]

\* C13 (as claimed): the record a log worker exports has a severity number
\* in [1,24] and, when its text names a band, a number of that band.
C13_NoBadSeverityExported ==
    sevPc = "exported"
    => /\ sevRecord.num \in 1..24
       /\ \A b \in 1..Len(SeverityBands) :
              sevRecord.text = <<SeverityBands[b]>> => BandOf(sevRecord.num) = SeverityBands[b]

\* The keys of a slice of attributes.
KeysOf(kvs) == {kvs[i].key : i \in 1..Len(kvs)}

\* C14 (as claimed): without mock data, sensitive keys or values of an
\* unsupported type, the attributes of a log record are exactly the
\* configured telemetry attributes: as many, under the same keys.
C14_ExactlyConfigured ==
    (apc = "called" /\ afn = "record" /\ ~out1.err /\ ~acfg.mock /\ acfg.sens = <<>>
        /\ \A k \in DOMAIN acfg.attrs : acfg.attrs[k].type \in {"string", "int"})
    => /\ Len(out1.kvs) = Cardinality(DOMAIN acfg.attrs)
       /\ KeysOf(out1.kvs) = DOMAIN acfg.attrs

\* No key occurs twice in a slice of attributes.
UniqueKeys(kvs) == \A i, j \in 1..Len(kvs) : kvs[i].key = kvs[j].key => i = j

\* C15 (as claimed): in what GetResourceAttrWithMockMarker and
\* GetTelemetryAttrWithMockMarker return and in the attributes of a log
\* record, each key occurs at most once.
C15_KeysUnique ==
    (apc \in {"called", "twice", "rerun"} /\ ~out1.err) => UniqueKeys(out1.kvs)

\* C16 (as claimed): what GetResourceAttrWithMockMarker returns holds exactly
\* one service.name attribute: the one of the map when the map has the key,
\* else one with the configured service name.
C16_ExactlyOneServiceName ==
    (apc = "called" /\ afn = "resource" /\ ~out1.err)
    => /\ Cardinality(Places(out1.kvs, ServiceNameKey)) = 1
       /\ \A i \in Places(out1.kvs, ServiceNameKey) :
              IF ServiceNameKey \in DOMAIN attrMap
              THEN acfg.mock \/ out1.kvs[i].val = attrMap[ServiceNameKey].val
              ELSE out1.kvs[i].val = acfg.svc

\* The attributes of a returned slice, without their order.
AttrSet(kvs) == {kvs[i] : i \in 1..Len(kvs)}

\* C17 (as claimed): two runs with the same non-zero mock seed and the same
\* configuration give every attribute the same expanded value.
C17_SameSeedSameValues ==
    (apc = "rerun" /\ acfg.seed # 0 /\ ~out1.err /\ ~out2.err)
    => AttrSet(out1.kvs) = AttrSet(out2.kvs)

\* C18: with mock data disabled, two calls of GetTelemetryAttrWithMockMarker
\* (or of GetResourceAttrWithMockMarker) on the unchanged configuration
\* return the same attributes: the same keys with the same typed values.
C18_Idempotent ==
    (apc = "twice" /\ afn \in {"telemetry", "resource"})
    => /\ ~out1.err /\ ~out2.err
       /\ Len(out1.kvs) = Len(out2.kvs)
       /\ AttrSet(out1.kvs) = AttrSet(out2.kvs)

C18_Witness ==
    /\ apc = "twice"
    /\ afn = "telemetry"
    /\ ~acfg.mock
    /\ Len(out1.kvs) = 2
    /\ out1.kvs # out2.kvs
    /\ AttrSet(out1.kvs) = AttrSet(out2.kvs)

\* The text of the fixed table for n in [1,24]: the name of its band, followed
\* by the sub-level 2, 3 or 4 for the second to fourth number of the band.
BandText(n) ==
    IF (n - 1) % 4 = 0
    THEN <<BandOf(n)>>
    ELSE <<BandOf(n), DigitChars[((n - 1) % 4) + 2]>>

\* C19: with an empty severity text, parseSeverity succeeds for every number
\* in [1,24] and returns the text of the number's band (9 gives "Info"); for
\* every number outside [1,24] it fails with the out-of-range error.
C19_SeverityDerivation ==
    (sevPc \in {"resolved", "exported"} /\ sevCfg.text = <<>>)
    => IF sevInt \in 1..24
       THEN /\ sevOut.err = "none"
            /\ sevOut.num = sevInt
            /\ sevOut.text = BandText(sevInt)
            /\ sevInt = 9 => sevOut.text = <<"Info">>
       ELSE sevOut.err = "range"

C19_Witness ==
    /\ sevPc = "resolved"
    /\ sevCfg.text = <<>>
    /\ sevInt = 9
    /\ sevOut = [err |-> "none", text |-> <<"Info">>, num |-> 9]

\* C20 (as claimed): once run has stored false in the running flag, a worker
\* at the head of its loop starts no further iteration, and every worker
\* finishes the iteration it is in and calls wg.Done.
C20_CooperativeStop ==
    /\ [][\A w \in Workers :
             (stoppedAt >= 0 /\ wpc[w] = "loop") => wpc'[w] \in {"loop", "done"}]_vars
    /\ \A w \in Workers :
           (stoppedAt >= 0 /\ w <= spawned) ~> (wpc[w] = "done")

\* C21: the shared counter starts at 0, never decreases, and is in every state
\* the number of records exported and counted by all workers; the final count
\* of run is the sum of the workers' iteration counts.
C21_CounterExact ==
    /\ [](/\ totalLogs = SumTo(iter, MaxWorkers)
          /\ finalCount # -1 => finalCount = SumTo(iter, MaxWorkers))
    /\ [][totalLogs' >= totalLogs]_vars

C21_Witness ==
    /\ RunReturnedNil
    /\ iter = [w \in Workers |-> 2]
    /\ totalLogs = 4
    /\ finalCount = 4

\* C22 (as claimed): the record of an iteration, its timestamp included, is
\* built after the limiter's wait of that iteration has returned: an exported
\* record is not older than the token it was exported on.
C22_LimiterFirst ==
    \A w \in Workers : wpc[w] = "count" => recTime[w] >= wakeAt[w]

\* C23 (as claimed): in a trace with c child spans of span duration d, child
\* j starts at the end timestamp of child j-1, and the parent span lasts
\* (c+1) x d from its start to its end.
C23_TraceSpan ==
    \A w \in TraceWorkers :
        twpc[w] \in {"send", "check"}
        => /\ \A j \in 2..Len(twChildren[w]) :
                 twChildren[w][j].start = twChildren[w][j - 1].end
           /\ twParent[w].end - twParent[w].start
                  = (Len(twChildren[w]) + 1) * trCfg.spanDuration

\* C24 (as claimed): a completed outer iteration of a trace worker has ended
\* one parent span and exactly the configured number of child spans, 0
\* included.
C24_ConfiguredChildSpans ==
    \A w \in TraceWorkers :
        twpc[w] \in {"send", "check"}
        => /\ twParent[w].end # -1
           /\ Len(twChildren[w]) = trCfg.children

\* C25: a call of ProcessMockTemplate loads the shared pointer while no
\* writer holds the lock, so it gets an instance that was stored whole, the
\* previous or the new one; and every draw of one expansion uses the instance
\* the call loaded, also when the shared instance is replaced meanwhile.
C25_NoTornInstance ==
    /\ \A e \in Expanders : epc[e] \in {"rlocked", "loaded"} => mpc = "idle"
    /\ mpc \in {"locked", "stored"} => fakerMutex.readers = 0
    /\ \A e \in Expanders :
           /\ epc[e] \in {"loaded", "template", "returned"}
                  => currentFaker[e] \in 1..reshuffles
           /\ \A i \in 1..Len(drawnFrom[e]) : drawnFrom[e][i] = currentFaker[e]

C25_Witness ==
    \E e \in Expanders :
        /\ epc[e] = "returned"
        /\ drawnFrom[e] = <<1, 1>>
        /\ fakerInstance = 2

C27_DoneOnEveryPath ==
    /\ \A w \in Workers :
          (leftBy[w] # "none" \/ wfail[w] \in {"attr", "body"}) => wpc[w] = "done"
    /\ wgCount = spawned - Cardinality({w \in Workers : wpc[w] = "done"})
    /\ wgCount >= 0

\* C28: once exporter.Shutdown has been invoked, wg.Wait has returned and the
\* channel is closed, every spawned worker has finished, and no step makes
\* a further Export call.
C28_NoExportAfterShutdown ==
    /\ [](shutdownCalls > 0 =>
            /\ runPc \in {"defers", "returned"}
            /\ progressClosed
            /\ \A w \in 1..spawned : wpc[w] = "done")
    /\ [][shutdownCalls > 0 => exportCalls' = exportCalls]_vars

\* Two workers have exported, and both deferred Shutdown calls have run.
C28_Witness ==
    /\ runPc = "returned"
    /\ shutdownCalls = 2
    /\ \A w \in 1..2 : exportCalls[w] >= 1

\* C29: no send on the closed progress channel: when run has closed it every
\* spawned worker has called wg.Done, none is at its send and no send has
\* panicked; and a worker at its send gets past it (or the process has
\* ended), the aggregator receiving until the close.
C29_NoSendAfterClose ==
    /\ [](/\ ~trPanic
          /\ trClosed => \A w \in 1..trSpawned : twpc[w] = "done")
    /\ \A w \in TraceWorkers :
          (twpc[w] = "send") ~> (twpc[w] # "send" \/ trExited)

\* Two workers have each sent at least once, the aggregator has received
\* all of it, and the channel is closed.
C29_Witness ==
    /\ trClosed
    /\ trSpawned = 2
    /\ \A w \in 1..2 : twI[w] >= 1
    /\ trAgg = "done"
    /\ trAggCount = totalTraces

\* C30 (as claimed): when Start has returned from a run without error, every
\* span a worker ended has reached the exporter, with or without batching.
C30_SpansReachExporter ==
    (trPc = "returned" /\ trErr = "ok") => trExported = trEnded

====
